---- MODULE Spec2Model ----
(***************************************************************************)
(* A model of three parts of the great_expectations repository:            *)
(*                                                                         *)
(*   - the metric DataProfilerProfileNumericColumnsDiffBetweenInclusive-   *)
(*     ThresholdRange._pandas of the capitalone_dataprofiler_expectations  *)
(*     contrib package;                                                    *)
(*   - the Datasource / DataAsset / BatchSorter / BatchRequest / Batch     *)
(*     object model of                                                     *)
(*     great_expectations/experimental/datasources/interfaces.py;          *)
(*   - the invoke tasks tests, docker and docs of tasks.py.                *)
(*                                                                         *)
(* Each part has its own variables and its own specification.              *)
(*                                                                         *)
(* Python dictionaries are functions whose DOMAIN is the set of keys.      *)
(* A Python value that can be of several types (True, a string, a dict)    *)
(* is a record with a "kind" field.                                        *)
(***************************************************************************)
EXTENDS Integers, Sequences, FiniteSets, TLC

VARIABLES
    \* ---- metric: the arguments of _pandas and what it returned
    profile_diff,               \* metrics["data_profiler.profile_diff"]
    numeric_columns,            \* metrics["data_profiler.profile_numeric_columns"]
    limit_check_report_keys,    \* metric_value_kwargs["limit_check_report_keys"]
    numerical_diff_statistics,  \* metric_value_kwargs["numerical_diff_statistics"]
    requested_columns,          \* the value _pandas returned
    metric_pc,                  \* "ready" before the call, "done" after it
    \* ---- datasource: Datasource and DataAsset objects
    assets,                     \* Datasource.assets of each datasource: name -> asset
    asset_datasource,           \* DataAsset._datasource of each asset, or Unset
    call,                       \* the last call made: its arguments and its outcome
    \* ---- sorters: the order_by field of one DataAsset
    sorters,                    \* the sorters a caller passes (strings or BatchSorters)
    order_by,                   \* DataAsset.order_by
    sorters_call,               \* the last call that set order_by, and its outcome
    \* ---- sort_batches
    batch_list,                 \* the list passed to sort_batches, sorted in place
    sort_call,                  \* the call of sort_batches: its input and its outcome
    \* ---- batches
    batches,                    \* the Batch objects constructed
    batch_manager,              \* the batches loaded in the execution engine's batch manager
    batch_call,                 \* the last call on a Batch: its arguments and outcome
    \* ---- tasks.py: one invoke process
    cwd,                        \* the working directory of the process
    commands,                   \* the command lines the last task passed to ctx.run
    fs_ops,                     \* the changes the last task made to files and directories
    task_call                   \* the last task run: its arguments and its outcome

metricVars == <<profile_diff, numeric_columns, limit_check_report_keys,
                numerical_diff_statistics, requested_columns, metric_pc>>

datasourceVars == <<assets, asset_datasource, call>>

sortersVars == <<sorters, sorters_call>>
sortVars == <<batch_list, sort_call>>

batchVars == <<batches, batch_manager, batch_call>>

tasksVars == <<cwd, commands, fs_ops, task_call>>

vars == <<metricVars, datasourceVars, sortersVars, sortVars, order_by, batchVars,
          tasksVars>>

notMetricVars == <<datasourceVars, sortersVars, sortVars, order_by, batchVars, tasksVars>>
notDatasourceVars == <<metricVars, sortersVars, sortVars, order_by, batchVars, tasksVars>>
notSortersVars == <<metricVars, datasourceVars, sortVars, batchVars, tasksVars>>
notSortVars == <<metricVars, datasourceVars, sortersVars, batchVars, tasksVars>>
notBatchVars == <<metricVars, datasourceVars, sortersVars, sortVars, order_by, tasksVars>>
notTasksVars == <<metricVars, datasourceVars, sortersVars, sortVars, order_by, batchVars>>

(***************************************************************************)
(* Generic helpers for dictionaries.                                       *)
(***************************************************************************)
EmptyDict == [k \in {} |-> 0]

\* every dictionary with keys among K and values in V
Dicts(K, V) == UNION {[S -> V] : S \in SUBSET K}

\* d[key] = value
DictSet(d, key, value) ==
    [k \in DOMAIN d \cup {key} |-> IF k = key THEN value ELSE d[k]]

\* del d[key]
DictDel(d, key) == [k \in DOMAIN d \ {key} |-> d[k]]

Range(s) == {s[i] : i \in DOMAIN s}

(***************************************************************************)
(* Bounds of the metric's inputs.                                          *)
(***************************************************************************)
\* reported deltas are the integers 0..MaxDelta and the string "unchanged"
MaxDelta == 1

GENERIC == "*"
ColumnNames == {"a", "b"}
StatNames == {"min", "max"}

\* a value of the diff report: a number or the string "unchanged"
Number(n) == [kind |-> "number", num |-> n]
Unchanged == [kind |-> "str", str |-> "unchanged"]
DiffValues == {Number(n) : n \in 0..MaxDelta} \cup {Unchanged}

\* {"lower": l, "upper": u}
Bounds(l, u) == [lower |-> l, upper |-> u]
BoundsSet == {Bounds(0, 0), Bounds(1, 1)}

(***************************************************************************)
(* util.is_value_between_bounds and                                        *)
(* util.replace_generic_operator_in_report_keys are imported by the        *)
(* expectation (lines 10-13) and are not part of the source at hand; they  *)
(* are modelled from the documentation of the expectation.                 *)
(***************************************************************************)
is_value_between_bounds(value, lower_bound, upper_bound, inclusive) ==
    IF inclusive
    THEN lower_bound <= value /\ value <= upper_bound
    ELSE lower_bound < value /\ value < upper_bound

\* all_keys is a list; the "*" entry is replaced by one entry for each key
\* of all_keys that has no entry of its own
RECURSIVE ApplyGeneric(_, _, _)
ApplyGeneric(keys_dict, all_keys, general_value) ==
    IF all_keys = <<>> THEN keys_dict
    ELSE LET key == Head(all_keys)
             next == IF key \in DOMAIN keys_dict THEN keys_dict
                     ELSE DictSet(keys_dict, key, general_value)
         IN  ApplyGeneric(next, Tail(all_keys), general_value)

replace_generic_operator_in_report_keys(provided_keys_dict, all_keys) ==
    IF GENERIC \in DOMAIN provided_keys_dict
    THEN ApplyGeneric(DictDel(provided_keys_dict, GENERIC), all_keys,
                      provided_keys_dict[GENERIC])
    ELSE provided_keys_dict

(***************************************************************************)
(* DataProfilerProfileNumericColumnsDiffBetweenInclusiveThresholdRange     *)
(* ._pandas                                                                *)
(***************************************************************************)
TrueEntry == [kind |-> "True"]
Message(s) == [kind |-> "str", str |-> s]
OutOfBounds(l, u, v) ==
    [kind |-> "dict", lower_bound |-> l, upper_bound |-> u, value_found |-> v]
StatsResult(d) == [kind |-> "stats", stats |-> d]

\* lines 77-81: the statistics of the first entry of data_stats for col
RECURSIVE col_data_stats_of(_, _)
col_data_stats_of(data_stats, col) ==
    IF data_stats = <<>> THEN EmptyDict
    ELSE IF Head(data_stats).column_name = col THEN Head(data_stats).statistics
    ELSE col_data_stats_of(Tail(data_stats), col)

\* line 92: the bounds check is called with inclusive=True
BoundsCheckExclusive(diff_val, bounds) ==
    is_value_between_bounds(diff_val, bounds.lower, bounds.upper, FALSE)

BoundsCheck(diff_val, bounds) ==
    is_value_between_bounds(diff_val, bounds.lower, bounds.upper, TRUE)

\* lines 88-90 with "unchanged" read as a delta of 1
DiffValUnchangedAsOne(found) == IF found = Unchanged THEN 1 ELSE found.num

\* lines 88-90: diff_val, with "unchanged" replaced by 0
DiffVal(found) == IF found = Unchanged THEN 0 ELSE found.num

\* lines 85-101: the entry of one statistic
StatEntry(col_data_stats, stat, bounds) ==
    IF stat \notin DOMAIN col_data_stats
    THEN Message("Statistic requested was not found.")
    ELSE LET found == col_data_stats[stat]
             diff_val == DiffVal(found)
             between_bounds == BoundsCheck(diff_val, bounds)
         IN  IF ~between_bounds
             THEN OutOfBounds(bounds.lower, bounds.upper, Number(diff_val))
             ELSE TrueEntry

\* line 59: the list of keys that replaces the "*" column key
GenericColumnsFromSchema(pd, numeric) == pd.profile_schema

GenericColumns(pd, numeric) == numeric

\* line 70: the list of keys that replaces the "*" statistic key
GenericStatsDropFirst(stats_list) ==
    IF stats_list = <<>> THEN <<>> ELSE Tail(stats_list)

GenericStats(stats_list) == stats_list

\* lines 63-75 with the schema check made before the numeric check
ColumnEntrySchemaFirst(pd, numeric, stats_list, col, stats_in) ==
    IF col \notin Range(pd.profile_schema)
    THEN Message("Column requested was not found.")
    ELSE IF col \notin Range(numeric)
    THEN Message("Column is Non-Numeric")
    ELSE LET stats == replace_generic_operator_in_report_keys(
                          stats_in, GenericStats(stats_list))
             col_data_stats == col_data_stats_of(pd.data_stats, col)
         IN  StatsResult([stat \in DOMAIN stats |->
                 StatEntry(col_data_stats, stat, stats[stat])])

\* lines 63-101: the entry of one requested column
ColumnEntry(pd, numeric, stats_list, col, stats_in) ==
    IF col \notin Range(numeric)
    THEN Message("Column is Non-Numeric")
    ELSE LET stats == replace_generic_operator_in_report_keys(
                          stats_in, GenericStats(stats_list))
         IN  IF col \notin Range(pd.profile_schema)
             THEN Message("Column requested was not found.")
             ELSE LET col_data_stats == col_data_stats_of(pd.data_stats, col)
                  IN  StatsResult([stat \in DOMAIN stats |->
                          StatEntry(col_data_stats, stat, stats[stat])])

\* lines 46-103
_pandas(pd, numeric, keys, stats_list) ==
    LET limit_check_report_keys_copy ==
            replace_generic_operator_in_report_keys(keys, GenericColumns(pd, numeric))
    IN  [col \in DOMAIN limit_check_report_keys_copy |->
            ColumnEntry(pd, numeric, stats_list, col,
                        limit_check_report_keys_copy[col])]

(***************************************************************************)
(* The inputs the metric is run on.                                        *)
(***************************************************************************)
StatisticsDicts == Dicts(StatNames, DiffValues)
\* the dict of one column: statistics (or "*") to bounds
StatKeyDicts ==
    { [k \in {GENERIC} |-> Bounds(0, 0)],
      [k \in {"min"} |-> Bounds(1, 1)],
      [k \in {GENERIC, "min"} |-> IF k = GENERIC THEN Bounds(1, 1) ELSE Bounds(0, 0)],
      [k \in {GENERIC, "max"} |-> IF k = GENERIC THEN Bounds(0, 0) ELSE Bounds(1, 1)],
      [k \in {"min", "max"} |-> IF k = "min" THEN Bounds(0, 0) ELSE Bounds(1, 1)] }
SchemaLists == {<<"a", "b">>, <<"a">>}
NumericLists == {<<>>, <<"a">>, <<"b">>, <<"a", "b">>}
StatisticLists == {<<"min", "max">>, <<"min">>}

\* the diff report has one data_stats entry for each column of the schema
DataStatsFor(schema) ==
    {ds \in [DOMAIN schema -> [column_name : ColumnNames, statistics : StatisticsDicts]] :
        \A i \in DOMAIN schema : ds[i].column_name = schema[i]}

MetricInit ==
    /\ \E schema \in SchemaLists : \E ds \in DataStatsFor(schema) :
           profile_diff = [profile_schema |-> schema, data_stats |-> ds]
    /\ numeric_columns \in NumericLists
    /\ limit_check_report_keys \in Dicts(ColumnNames \cup {GENERIC}, StatKeyDicts)
    /\ numerical_diff_statistics \in StatisticLists
    /\ requested_columns = EmptyDict
    /\ metric_pc = "ready"

MetricIdle ==
    /\ profile_diff = [profile_schema |-> <<>>, data_stats |-> <<>>]
    /\ numeric_columns = <<>>
    /\ limit_check_report_keys = EmptyDict
    /\ numerical_diff_statistics = <<>>
    /\ requested_columns = EmptyDict
    /\ metric_pc = "ready"

\* the metric is computed
Pandas ==
    /\ metric_pc = "ready"
    /\ requested_columns' = _pandas(profile_diff, numeric_columns,
                                    limit_check_report_keys, numerical_diff_statistics)
    /\ metric_pc' = "done"
    /\ UNCHANGED <<profile_diff, numeric_columns, limit_check_report_keys,
                   numerical_diff_statistics>>
    /\ UNCHANGED notMetricVars

(***************************************************************************)
(* Claims about the metric.  They read the arguments as the caller gave    *)
(* them: the dict requested for a column is the column's own entry, or     *)
(* the "*" entry when the column has none.                                 *)
(***************************************************************************)
MetricDone == metric_pc = "done"

RequestedStats(col) ==
    IF col \in DOMAIN limit_check_report_keys
    THEN limit_check_report_keys[col]
    ELSE limit_check_report_keys[GENERIC]

RequestedBounds(col, stat) ==
    LET d == RequestedStats(col)
    IN  IF stat \in DOMAIN d THEN d[stat] ELSE d[GENERIC]

\* the diff statistics the report holds for col
ReportedStatistics(col) ==
    LET idx == {i \in DOMAIN profile_diff.data_stats :
                    profile_diff.data_stats[i].column_name = col}
    IN  IF idx = {} THEN EmptyDict
        ELSE profile_diff.data_stats[CHOOSE i \in idx : \A j \in idx : i <= j].statistics

\* the delta as a number: "unchanged" is no delta
ReportedDelta(col, stat) ==
    LET v == ReportedStatistics(col)[stat]
    IN  IF v.kind = "number" THEN v.num ELSE 0

IsNumericInSchema(col) ==
    col \in Range(numeric_columns) /\ col \in Range(profile_diff.profile_schema)

\* C1: for every requested column that is numeric and in the profile schema, and
\* every requested statistic the report holds for it, the entry is True exactly
\* when lower <= delta <= upper (both ends inclusive), and otherwise the record
\* of the bounds and the delta that were checked.
C1_InclusiveRangeEntry ==
    MetricDone =>
        \A col \in DOMAIN requested_columns :
            IsNumericInSchema(col) =>
                /\ requested_columns[col].kind = "stats"
                /\ \A stat \in DOMAIN requested_columns[col].stats :
                       stat \in DOMAIN ReportedStatistics(col) =>
                           LET b == RequestedBounds(col, stat)
                               delta == ReportedDelta(col, stat)
                               entry == requested_columns[col].stats[stat]
                           IN  IF b.lower <= delta /\ delta <= b.upper
                               THEN entry = TrueEntry
                               ELSE entry = [kind |-> "dict",
                                             lower_bound |-> b.lower,
                                             upper_bound |-> b.upper,
                                             value_found |-> Number(delta)]

\* a column with a statistic whose delta is equal to both bounds (True) and a
\* statistic whose delta is outside its bounds (a record)
C1_Witness ==
    /\ MetricDone
    /\ \E col \in DOMAIN requested_columns :
           /\ IsNumericInSchema(col)
           /\ \E s1, s2 \in DOMAIN requested_columns[col].stats :
                  /\ s1 \in DOMAIN ReportedStatistics(col)
                  /\ ReportedDelta(col, s1) = RequestedBounds(col, s1).upper
                  /\ requested_columns[col].stats[s1] = TrueEntry
                  /\ requested_columns[col].stats[s2].kind = "dict"

\* the result of the metric for col when it is requested alone, with stats
AloneResult(col, stats) ==
    _pandas(profile_diff, numeric_columns, [c \in {col} |-> stats],
            numerical_diff_statistics)[col]

\* C2: the value stored under the "*" column key is applied to every numeric
\* column that has no key of its own, and a column with a key of its own is
\* checked against its own entry, whatever the "*" entry holds.
C2_GenericColumnKey ==
    MetricDone =>
        /\ GENERIC \in DOMAIN limit_check_report_keys =>
               \A col \in Range(numeric_columns) \ DOMAIN limit_check_report_keys :
                   /\ col \in DOMAIN requested_columns
                   /\ requested_columns[col] =
                          AloneResult(col, limit_check_report_keys[GENERIC])
        /\ \A col \in DOMAIN limit_check_report_keys \ {GENERIC} :
               /\ col \in DOMAIN requested_columns
               /\ requested_columns[col] = AloneResult(col, limit_check_report_keys[col])

\* a "*" key, a numeric column with a key of its own and a numeric column without,
\* both in the schema, whose results differ
C2_Witness ==
    /\ MetricDone
    /\ GENERIC \in DOMAIN limit_check_report_keys
    /\ \E c1 \in DOMAIN limit_check_report_keys \ {GENERIC} :
       \E c2 \in Range(numeric_columns) \ DOMAIN limit_check_report_keys :
           /\ IsNumericInSchema(c1) /\ IsNumericInSchema(c2)
           /\ limit_check_report_keys[c1] # limit_check_report_keys[GENERIC]
           /\ requested_columns[c1] # AloneResult(c1, limit_check_report_keys[GENERIC])
           /\ requested_columns[c2].kind = "stats"

\* C3: within the entry of one column, the bounds stored under the "*" statistic
\* key are applied to every statistic of numerical_diff_statistics that has no key
\* of its own for that column, and a statistic with a key of its own is checked
\* against its own bounds.
C3_GenericStatisticKey ==
    MetricDone =>
        \A col \in DOMAIN requested_columns :
            IsNumericInSchema(col) =>
                LET d == RequestedStats(col)
                    res == requested_columns[col].stats
                IN  /\ GENERIC \in DOMAIN d =>
                           \A stat \in Range(numerical_diff_statistics) \ DOMAIN d :
                               /\ stat \in DOMAIN res
                               /\ res[stat] =
                                      StatEntry(ReportedStatistics(col), stat, d[GENERIC])
                    /\ \A stat \in DOMAIN d \ {GENERIC} :
                           /\ stat \in DOMAIN res
                           /\ res[stat] = StatEntry(ReportedStatistics(col), stat, d[stat])

\* a column whose dict has a "*" key and a key for one statistic, with different
\* bounds, and the report holds both that statistic and another one
C3_Witness ==
    /\ MetricDone
    /\ \E col \in DOMAIN requested_columns :
           /\ IsNumericInSchema(col)
           /\ GENERIC \in DOMAIN RequestedStats(col)
           /\ \E s1 \in DOMAIN RequestedStats(col) \ {GENERIC} :
              \E s2 \in Range(numerical_diff_statistics) \ DOMAIN RequestedStats(col) :
                  /\ {s1, s2} \subseteq DOMAIN ReportedStatistics(col)
                  /\ RequestedStats(col)[s1] # RequestedStats(col)[GENERIC]
                  /\ requested_columns[col].stats[s1] = TrueEntry
                  /\ requested_columns[col].stats[s2].kind \in {"True", "dict"}

\* C15: a reported delta equal to the string "unchanged" is checked as a delta
\* of 0: the entry is True exactly when lower <= 0 <= upper, and a failing entry
\* holds the bounds and value_found = 0, not "unchanged".
C15_UnchangedIsZero ==
    MetricDone =>
        \A col \in DOMAIN requested_columns :
            IsNumericInSchema(col) =>
                \A stat \in DOMAIN requested_columns[col].stats :
                    (/\ stat \in DOMAIN ReportedStatistics(col)
                     /\ ReportedStatistics(col)[stat] = Unchanged) =>
                        LET b == RequestedBounds(col, stat)
                            entry == requested_columns[col].stats[stat]
                        IN  /\ entry = TrueEntry <=> (b.lower <= 0 /\ 0 <= b.upper)
                            /\ entry # TrueEntry =>
                                   /\ entry.kind = "dict"
                                   /\ entry.value_found = Number(0)
                                   /\ entry.value_found # Unchanged
                                   /\ entry.lower_bound = b.lower
                                   /\ entry.upper_bound = b.upper

\* one column with two "unchanged" statistics: one within its bounds (True) and
\* one outside them (a record with value_found = 0)
C15_Witness ==
    /\ MetricDone
    /\ \E col \in DOMAIN requested_columns :
           /\ IsNumericInSchema(col)
           /\ \E s1, s2 \in DOMAIN requested_columns[col].stats :
                  /\ {s1, s2} \subseteq DOMAIN ReportedStatistics(col)
                  /\ ReportedStatistics(col)[s1] = Unchanged
                  /\ ReportedStatistics(col)[s2] = Unchanged
                  /\ requested_columns[col].stats[s1] = TrueEntry
                  /\ requested_columns[col].stats[s2].kind = "dict"
                  /\ requested_columns[col].stats[s2].value_found = Number(0)

\* C16: every column the metric reports on that is not in the numeric-columns
\* list gets the result "Column is Non-Numeric" and no statistics; this holds
\* also when the column is not in the profile schema, so such a column is never
\* reported as "Column requested was not found.".
C16_NonNumericBeforeSchema ==
    MetricDone =>
        /\ \A col \in DOMAIN requested_columns :
               col \notin Range(numeric_columns) =>
                   /\ requested_columns[col] = Message("Column is Non-Numeric")
                   /\ requested_columns[col] # Message("Column requested was not found.")
                   /\ requested_columns[col].kind # "stats"
        /\ \A col \in DOMAIN limit_check_report_keys \ {GENERIC} :
               col \notin Range(numeric_columns) => col \in DOMAIN requested_columns

\* a requested column that is neither numeric nor in the schema, beside a numeric
\* column of the schema whose statistics were checked
C16_Witness ==
    /\ MetricDone
    /\ \E c1, c2 \in DOMAIN requested_columns :
           /\ c1 \in DOMAIN limit_check_report_keys
           /\ c1 \notin Range(numeric_columns)
           /\ c1 \notin Range(profile_diff.profile_schema)
           /\ requested_columns[c1] = Message("Column is Non-Numeric")
           /\ IsNumericInSchema(c2)
           /\ requested_columns[c2].kind = "stats"

(***************************************************************************)
(* interfaces.py: Datasource, DataAsset, BatchRequest.                     *)
(*                                                                         *)
(* Datasource and DataAsset objects are identities; two assets may have    *)
(* the same name.  An asset is constructed without a datasource:           *)
(* _datasource is a pydantic PrivateAttr without a default, and reading it *)
(* before add_asset has set it raises AttributeError.                      *)
(***************************************************************************)
\* the number of DataAsset objects
MaxAssets == 3

Datasources == {"D1", "D2"}
DataAssets == 1..MaxAssets
AssetNames == <<"t1", "t2">>
UnknownName == "t9"

\* Datasource.name
DatasourceName(ds) == IF ds = "D1" THEN "pg" ELSE "lite"

\* DataAsset.name: assets 1 and 3 are both named "t1"
AssetName(a) == AssetNames[((a - 1) % Len(AssetNames)) + 1]

Unset == "unset"

None == [kind |-> "None"]
Some(d) == [kind |-> "dict", dict |-> d]

\* what a call did: it returned a value or raised an exception
Returned(v) == [raised |-> "none", returned |-> v]
Raised(e) == [raised |-> e]

\* lines 53-57
BatchRequest(datasource_name, data_asset_name, options) ==
    [datasource_name |-> datasource_name,
     data_asset_name |-> data_asset_name,
     options |-> options]

\* lines 144-153: abstract; the keys of the template of the asset's subclass
batch_request_options_template(a) ==
    IF a = 1 THEN [k \in {"year"} |-> None]
    ELSE [k \in {"year", "month"} |-> None]

\* lines 155-158: abstract; the batch list the subclass of the asset produces for
\* a batch request is identified by the asset and the request
AssetBatchList(a, batch_request) ==
    [kind |-> "batch_list", asset |-> a, batch_request |-> batch_request]

\* lines 188-191
_valid_batch_request_options(a, options) ==
    DOMAIN options \subseteq DOMAIN batch_request_options_template(a)

\* lines 162-186
get_batch_request(a, options) ==
    IF options # None /\ ~_valid_batch_request_options(a, options.dict)
    THEN Raised("BatchRequestError")
    ELSE IF asset_datasource[a] = Unset
    THEN Raised("AttributeError")
    ELSE Returned(BatchRequest(DatasourceName(asset_datasource[a]), AssetName(a),
                               IF options = None \/ options.dict = EmptyDict
                               THEN EmptyDict ELSE options.dict))

\* a lookup that returns None for a missing key instead of raising
get_asset_or_none(ds, asset_name) ==
    IF asset_name \in DOMAIN assets[ds]
    THEN Returned(assets[ds][asset_name])
    ELSE Returned(None)

\* lines 342-350
get_asset(ds, asset_name) ==
    IF asset_name \in DOMAIN assets[ds]
    THEN Returned(assets[ds][asset_name])
    ELSE Raised("LookupError")

\* line 339: the name the datasource looks the asset up under
RequestedAssetNameFromDatasource(batch_request) == batch_request.datasource_name

RequestedAssetName(batch_request) == batch_request.data_asset_name

\* lines 327-340: the outcome and the assets whose method was called
get_batch_list_from_batch_request(ds, batch_request) ==
    LET data_asset == get_asset(ds, RequestedAssetName(batch_request))
    IN  IF data_asset.raised # "none"
        THEN [outcome |-> data_asset, called |-> <<>>]
        ELSE [outcome |-> Returned(AssetBatchList(data_asset.returned, batch_request)),
              called |-> <<data_asset.returned>>]

\* the options a caller passes to get_batch_request
OptionKeys == {"year", "month", "day"}
OptionsArgs == {None} \cup {Some(d) : d \in Dicts(OptionKeys, {2020})}

\* the batch requests a caller passes to a datasource
BatchRequestArgs ==
    {BatchRequest(DatasourceName(ds), n, o) :
        ds \in Datasources, n \in Range(AssetNames) \cup {UnknownName},
        o \in {EmptyDict, [k \in {"year"} |-> 2020]}}

DatasourceInit ==
    /\ assets = [ds \in Datasources |-> EmptyDict]
    /\ asset_datasource = [a \in DataAssets |-> Unset]
    /\ call = [op |-> "none"]

\* add_asset without line 360: the asset is stored and its datasource is not set
AddAssetWithoutDatasource(ds, asset) ==
    /\ UNCHANGED asset_datasource
    /\ assets' = [assets EXCEPT ![ds] = DictSet(@, AssetName(asset), asset)]
    /\ call' = [op |-> "add_asset", ds |-> ds, asset |-> asset,
                outcome |-> Returned(asset)]

\* lines 352-362
AddAsset(ds, asset) ==
    /\ asset_datasource' = [asset_datasource EXCEPT ![asset] = ds]
    /\ assets' = [assets EXCEPT ![ds] = DictSet(@, AssetName(asset), asset)]
    /\ call' = [op |-> "add_asset", ds |-> ds, asset |-> asset,
                outcome |-> Returned(asset)]

GetAsset(ds, asset_name) ==
    /\ call' = [op |-> "get_asset", ds |-> ds, asset_name |-> asset_name,
                outcome |-> get_asset(ds, asset_name)]
    /\ UNCHANGED <<assets, asset_datasource>>

GetBatchRequest(asset, options) ==
    /\ call' = [op |-> "get_batch_request", asset |-> asset, options |-> options,
                outcome |-> get_batch_request(asset, options)]
    /\ UNCHANGED <<assets, asset_datasource>>

GetBatchListFromBatchRequest(ds, batch_request) ==
    LET r == get_batch_list_from_batch_request(ds, batch_request)
    IN  /\ call' = [op |-> "get_batch_list_from_batch_request", ds |-> ds,
                    batch_request |-> batch_request,
                    outcome |-> r.outcome, called |-> r.called]
        /\ UNCHANGED <<assets, asset_datasource>>

DoAddAsset ==
    /\ \E ds \in Datasources, a \in DataAssets : AddAsset(ds, a)
    /\ UNCHANGED notDatasourceVars

DoGetAsset ==
    /\ \E ds \in Datasources, n \in Range(AssetNames) \cup {UnknownName} :
           GetAsset(ds, n)
    /\ UNCHANGED notDatasourceVars

DoGetBatchRequest ==
    /\ \E a \in DataAssets, o \in OptionsArgs : GetBatchRequest(a, o)
    /\ UNCHANGED notDatasourceVars

DoGetBatchList ==
    /\ \E ds \in Datasources, br \in BatchRequestArgs :
           GetBatchListFromBatchRequest(ds, br)
    /\ UNCHANGED notDatasourceVars

(***************************************************************************)
(* Claims about datasources and assets.  A call that does not change the   *)
(* objects is described by "call" in the state it was made in: every later *)
(* step records another call.                                              *)
(***************************************************************************)
\* C4 as claimed: get_batch_request(options) raises BatchRequestError exactly when
\* options is not None and has a key that is not a key of the template, and in
\* every other case returns the BatchRequest of the datasource's name, the
\* asset's name and the options ({} for None).
C4_BatchRequestOrError ==
    call.op = "get_batch_request" =>
        LET a == call.asset
            invalid == /\ call.options # None
                       /\ \E k \in DOMAIN call.options.dict :
                              k \notin DOMAIN batch_request_options_template(a)
        IN  /\ call.outcome.raised = "BatchRequestError" <=> invalid
            /\ ~invalid =>
                   /\ call.outcome.raised = "none"
                   /\ call.outcome.returned =
                          [datasource_name |-> DatasourceName(asset_datasource[a]),
                           data_asset_name |-> AssetName(a),
                           options |-> IF call.options = None THEN EmptyDict
                                       ELSE call.options.dict]

\* the same for an asset that add_asset has given a datasource; an asset without
\* one raises AttributeError when the options are valid
C4_BatchRequestOfAddedAsset ==
    call.op = "get_batch_request" =>
        LET a == call.asset
            invalid == /\ call.options # None
                       /\ \E k \in DOMAIN call.options.dict :
                              k \notin DOMAIN batch_request_options_template(a)
        IN  /\ call.outcome.raised = "BatchRequestError" <=> invalid
            /\ ~invalid /\ asset_datasource[a] = Unset =>
                   call.outcome.raised = "AttributeError"
            /\ ~invalid /\ asset_datasource[a] # Unset =>
                   /\ call.outcome.raised = "none"
                   /\ call.outcome.returned =
                          [datasource_name |-> DatasourceName(asset_datasource[a]),
                           data_asset_name |-> AssetName(a),
                           options |-> IF call.options = None THEN EmptyDict
                                       ELSE call.options.dict]

\* C5: Datasource.get_batch_list_from_batch_request returns the batch list the
\* asset registered under batch_request.data_asset_name produces for the request,
\* and raises LookupError, calling no asset, when no asset is registered under
\* that name.
C5_BatchListOfRegisteredAsset ==
    call.op = "get_batch_list_from_batch_request" =>
        LET name == call.batch_request.data_asset_name
            registered == assets[call.ds]
        IN  IF name \in DOMAIN registered
            THEN /\ call.outcome.raised = "none"
                 /\ call.outcome.returned.asset = registered[name]
                 /\ call.outcome.returned.batch_request = call.batch_request
                 /\ call.called = <<registered[name]>>
            ELSE /\ call.outcome.raised = "LookupError"
                 /\ call.called = <<>>

\* a batch list was returned by a datasource whose name is not the request's
\* datasource_name, and another asset is registered beside the one called
C5_Witness ==
    /\ call.op = "get_batch_list_from_batch_request"
    /\ call.outcome.raised = "none"
    /\ Cardinality(DOMAIN assets[call.ds]) = 2
    /\ call.batch_request.datasource_name # DatasourceName(call.ds)

\* C6: after add_asset(asset), get_asset(asset.name) returns that asset and the
\* asset's datasource is the datasource; an asset registered earlier under the
\* same name is replaced, and every asset registered under another name stays
\* registered, unchanged.
C6_AddAssetRegisters ==
    [][\A ds \in Datasources, a \in DataAssets :
          (call'.op = "add_asset" /\ call'.ds = ds /\ call'.asset = a) =>
              /\ AssetName(a) \in DOMAIN assets'[ds]
              /\ assets'[ds][AssetName(a)] = a
              /\ asset_datasource'[a] = ds
              /\ DOMAIN assets'[ds] = DOMAIN assets[ds] \cup {AssetName(a)}
              /\ \A n \in DOMAIN assets[ds] \ {AssetName(a)} :
                     /\ assets'[ds][n] = assets[ds][n]
                     /\ asset_datasource'[assets[ds][n]] = asset_datasource[assets[ds][n]]
      ]_vars

\* the last call added an asset under a name that was taken by another asset,
\* beside an asset of another name
C6_Witness ==
    /\ call.op = "add_asset"
    /\ Cardinality(DOMAIN assets[call.ds]) = 2
    /\ assets[call.ds][AssetName(call.asset)] = call.asset
    /\ \E b \in DataAssets \ {call.asset} :
           /\ AssetName(b) = AssetName(call.asset)
           /\ asset_datasource[b] = call.ds

\* C7: get_asset(asset_name) raises LookupError exactly when asset_name is not a
\* key of the datasource's assets, and then leaves the registered assets as
\* they were.
C7_GetAssetLookupError ==
    [][call'.op = "get_asset" =>
          /\ call'.outcome.raised = "LookupError"
                 <=> call'.asset_name \notin DOMAIN assets[call'.ds]
          /\ call'.outcome.raised = "LookupError" =>
                 /\ assets' = assets
                 /\ asset_datasource' = asset_datasource
      ]_vars

\* a lookup failed on a datasource that has assets under other names
C7_Witness ==
    /\ call.op = "get_asset"
    /\ call.outcome.raised = "LookupError"
    /\ assets[call.ds] # EmptyDict
    /\ call.asset_name \in {AssetName(a) : a \in DataAssets}

\* C17 as claimed: after any sequence of add_asset calls, every asset stored in
\* a datasource's assets mapping is stored under its own name and reports that
\* datasource as its datasource.
C17_StoredAssetsOwned ==
    \A ds \in Datasources : \A n \in DOMAIN assets[ds] :
        /\ AssetName(assets[ds][n]) = n
        /\ asset_datasource[assets[ds][n]] = ds

\* what holds of it: every stored asset is stored under its own name and reports
\* the datasource it was added to last, which holds it too
C17_StoredUnderOwnName ==
    \A ds \in Datasources : \A n \in DOMAIN assets[ds] :
        LET a == assets[ds][n]
        IN  /\ AssetName(a) = n
            /\ asset_datasource[a] \in Datasources
            /\ AssetName(a) \in DOMAIN assets[asset_datasource[a]]

(***************************************************************************)
(* interfaces.py: BatchSorter and the conversion of sorter strings.        *)
(***************************************************************************)
\* the longest sorter string, and the longest list of sorters
MaxKeyLen == 2
MaxSorters == 2

Chars == {"-", "+", "y"}

\* the strings of at most n characters
RECURSIVE Strings(_)
Strings(n) ==
    IF n = 0 THEN {""}
    ELSE Strings(n - 1) \cup {c \o t : c \in Chars, t \in Strings(n - 1)}

\* the sorter strings a caller passes
SorterStrings == Strings(MaxKeyLen)

\* each string that is not empty as its first character and the rest
SplitFirst ==
    [str \in {c \o t : c \in Chars, t \in SorterStrings} |->
        CHOOSE p \in Chars \X SorterStrings : str = p[1] \o p[2]]

\* sort_key[0] and sort_key[1:] of a string that is not empty
FirstChar(str) == SplitFirst[str][1]
RestChars(str) == SplitFirst[str][2]

\* a str, and a BatchSorter (lines 64-67)
Str(str) == [kind |-> "str", str |-> str]
BatchSorter(key, reverse) == [kind |-> "BatchSorter", key |-> key, reverse |-> reverse]

\* the conversion with the two prefixes exchanged
_batch_sorter_from_str_swapped(sort_key) ==
    IF FirstChar(sort_key) = "+" THEN BatchSorter(RestChars(sort_key), TRUE)
    ELSE IF FirstChar(sort_key) = "-" THEN BatchSorter(RestChars(sort_key), FALSE)
    ELSE BatchSorter(sort_key, FALSE)

\* lines 101-114; sort_key is not empty
_batch_sorter_from_str(sort_key) ==
    IF FirstChar(sort_key) = "-" THEN BatchSorter(RestChars(sort_key), TRUE)
    ELSE IF FirstChar(sort_key) = "+" THEN BatchSorter(RestChars(sort_key), FALSE)
    ELSE BatchSorter(sort_key, FALSE)

\* lines 73-78
_is_batch_sorter_list(sorter_list) ==
    Len(sorter_list) = 0 \/ sorter_list[1].kind = "BatchSorter"

\* lines 81-84
_is_str_sorter_list(sorter_list) ==
    Len(sorter_list) > 0 /\ sorter_list[1].kind = "str"

\* lines 87-98; sort_key[0] of an empty string raises IndexError
_batch_sorter_from_list(sorter_list) ==
    IF _is_batch_sorter_list(sorter_list) THEN Returned(sorter_list)
    ELSE IF _is_str_sorter_list(sorter_list)
    THEN IF \E i \in DOMAIN sorter_list : sorter_list[i].str = ""
         THEN Raised("IndexError")
         ELSE Returned([i \in DOMAIN sorter_list |->
                           _batch_sorter_from_str(sorter_list[i].str)])
    ELSE Raised("ValueError")

\* lines 216-224: the validator of one item of order_by
_parse_order_by_sorter(v) ==
    IF v.kind = "str"
    THEN IF v.str = "" THEN Raised("ValueError")
         ELSE Returned(_batch_sorter_from_str(v.str))
    ELSE Returned(v)

\* line 126 with lines 216-224: the order_by field of a DataAsset constructed
\* with order_by=sorter_list; pydantic reports a validator's ValueError as a
\* ValidationError
parse_order_by(sorter_list) ==
    IF \E i \in DOMAIN sorter_list : _parse_order_by_sorter(sorter_list[i]).raised # "none"
    THEN Raised("ValidationError")
    ELSE Returned([i \in DOMAIN sorter_list |->
                      _parse_order_by_sorter(sorter_list[i]).returned])

\* the lists a caller passes: List[str] or List[BatchSorter]
SeqsUpTo(S, n) == UNION {[1..k -> S] : k \in 0..n}
SorterArgs ==
    SeqsUpTo({Str(t) : t \in SorterStrings}, MaxSorters)
        \cup SeqsUpTo({BatchSorter("y", TRUE), BatchSorter("-y", FALSE)}, MaxSorters)

SortersInit ==
    /\ sorters \in SorterArgs
    /\ order_by = <<>>
    /\ sorters_call = [op |-> "none"]

SortersIdle ==
    /\ sorters = <<>>
    /\ sorters_call = [op |-> "none"]

\* DataAsset(name=..., type=..., order_by=sorters): no asset when validation fails
ConstructWithOrderBy ==
    /\ sorters_call.op = "none"
    /\ LET r == parse_order_by(sorters)
       IN  /\ sorters_call' = [op |-> "order_by", raised |-> r.raised]
           /\ order_by' = IF r.raised = "none" THEN r.returned ELSE order_by
    /\ UNCHANGED sorters
    /\ UNCHANGED notSortersVars

\* lines 226-232, on an asset constructed without order_by
AddSorters ==
    /\ ~(sorters_call.op = "order_by" /\ sorters_call.raised # "none")
    /\ LET r == _batch_sorter_from_list(sorters)
       IN  /\ sorters_call' = [op |-> "add_sorters", raised |-> r.raised]
           /\ order_by' = IF r.raised = "none" THEN r.returned ELSE order_by
    /\ UNCHANGED sorters
    /\ UNCHANGED notSortersVars

\* the string t with the character c before it
Prefixed == [c \in Chars |-> [t \in SorterStrings |-> c \o t]]

MaxBatches == 3

MetadataKeys == {"year", "month"}
MetadataValues == {1, 2}

\* whether batch b goes before batch e, which list.sort has already placed
GoesBefore(b, e, key, reverse) ==
    IF reverse THEN b.metadata[key] > e.metadata[key]
    ELSE b.metadata[key] < e.metadata[key]

RECURSIVE InsertStable(_, _, _, _)
InsertStable(sorted, b, key, reverse) ==
    IF sorted = <<>> THEN <<b>>
    ELSE IF GoesBefore(b, Head(sorted), key, reverse) THEN <<b>> \o sorted
    ELSE <<Head(sorted)>> \o InsertStable(Tail(sorted), b, key, reverse)

\* list.sort(key=lambda b: b.metadata[key], reverse=reverse)
RECURSIVE ListSort(_, _, _)
ListSort(list, key, reverse) ==
    IF list = <<>> THEN <<>>
    ELSE InsertStable(ListSort(SubSeq(list, 1, Len(list) - 1), key, reverse),
                      list[Len(list)], key, reverse)

\* the sorters in the order of the list
PassesInListOrder(sorter_list) == sorter_list

\* line 240: reversed(self.order_by)
Passes(sorter_list) ==
    [i \in DOMAIN sorter_list |-> sorter_list[Len(sorter_list) + 1 - i]]

\* lines 241-250: the passes of the loop, first to last
RECURSIVE SortPasses(_, _)
SortPasses(list, passes) ==
    IF passes = <<>> THEN [list |-> list, raised |-> "none"]
    ELSE LET sorter == Head(passes)
         IN  IF \E i \in DOMAIN list : sorter.key \notin DOMAIN list[i].metadata
             THEN [list |-> list, raised |-> "KeyError"]
             ELSE SortPasses(ListSort(list, sorter.key, sorter.reverse), Tail(passes))

\* lines 234-250
sort_batches(sorter_list, list) == SortPasses(list, Passes(sorter_list))

\* a Batch of the list: sort_batches reads only its metadata
BatchesOf(metadata_list) ==
    [i \in DOMAIN metadata_list |-> [batch |-> i, metadata |-> metadata_list[i]]]

SortInit ==
    /\ order_by \in SeqsUpTo({BatchSorter(k, r) : k \in MetadataKeys, r \in BOOLEAN},
                             MaxSorters)
    /\ \E ml \in SeqsUpTo(Dicts(MetadataKeys, MetadataValues), MaxBatches) :
           batch_list = BatchesOf(ml)
    /\ sort_call = [op |-> "none"]

SortIdle ==
    /\ batch_list = <<>>
    /\ sort_call = [op |-> "none"]

SortBatches ==
    /\ LET r == sort_batches(order_by, batch_list)
       IN  /\ batch_list' = r.list
           /\ sort_call' = [op |-> "sort_batches", input |-> batch_list,
                            raised |-> r.raised]
    /\ UNCHANGED order_by
    /\ UNCHANGED notSortVars

\* every batch of the list has every key of order_by
AllKeysPresent(list) ==
    \A i \in DOMAIN list, j \in DOMAIN order_by :
        order_by[j].key \in DOMAIN list[i].metadata

\* b1 may stand before b2: at the first sorter of order_by on whose key they
\* differ, b1 has the smaller value, or the greater one when the sorter is reverse
InOrder(b1, b2) ==
    LET differ == {j \in DOMAIN order_by :
                      b1.metadata[order_by[j].key] # b2.metadata[order_by[j].key]}
    IN  differ # {} =>
            LET j == CHOOSE x \in differ : \A y \in differ : x <= y
                v1 == b1.metadata[order_by[j].key]
                v2 == b2.metadata[order_by[j].key]
            IN  IF order_by[j].reverse THEN v1 > v2 ELSE v1 < v2

IsPermutation(l1, l2) ==
    /\ Len(l1) = Len(l2)
    /\ \E f \in [DOMAIN l1 -> DOMAIN l1] :
           /\ \A i, j \in DOMAIN l1 : i # j => f[i] # f[j]
           /\ \A i \in DOMAIN l1 : l2[i] = l1[f[i]]

\* C8: when every batch has every sorter key, sort_batches leaves a permutation of
\* the list it was given, ordered by the key of order_by[0], then order_by[1], and
\* so on, each ascending, or descending when its sorter is reverse; with an empty
\* order_by the list stays in the order it was given in.
C8_SortBatchesLexicographic ==
    (sort_call.op = "sort_batches" /\ AllKeysPresent(sort_call.input)) =>
        /\ sort_call.raised = "none"
        /\ IsPermutation(sort_call.input, batch_list)
        /\ \A i, j \in DOMAIN batch_list :
               i < j => InOrder(batch_list[i], batch_list[j])
        /\ order_by = <<>> => batch_list = sort_call.input

\* three batches were reordered by two sorters of different keys, the first of
\* them reverse, with two batches equal on the first key
C8_Witness ==
    /\ sort_call.op = "sort_batches"
    /\ sort_call.raised = "none"
    /\ Len(order_by) = 2
    /\ order_by[1].key # order_by[2].key
    /\ order_by[1].reverse /\ ~order_by[2].reverse
    /\ Len(batch_list) = 3
    /\ batch_list # sort_call.input
    /\ batch_list[1].metadata[order_by[1].key] = batch_list[2].metadata[order_by[1].key]
    /\ batch_list[1].metadata[order_by[2].key] # batch_list[2].metadata[order_by[2].key]
    /\ batch_list[2].metadata[order_by[1].key] # batch_list[3].metadata[order_by[1].key]

(***************************************************************************)
(* interfaces.py: Batch.                                                   *)
(*                                                                         *)
(* The options of a batch request are a dict, read in the order its keys   *)
(* were inserted in: a list of items with different keys.  Two option      *)
(* dicts are equal when they hold the same items, in any order.            *)
(***************************************************************************)
\* the number of Batch objects, and of options in a batch request
MaxBatchObjects == 2
MaxOptions == 1

\* names of datasources and of assets
BatchNames == {"a", "a-a"}
OptionNames == {"k", "k_k"}

\* option values: an int, a str or None
IntValue(n) == [kind |-> "int", int |-> n]
StrValue(str) == [kind |-> "str", str |-> str]
OptionValues == {IntValue(1), StrValue("1"), StrValue("k_1"), None}

Digits == <<"0", "1", "2", "3", "4", "5", "6", "7", "8", "9">>

\* str(n) of an int that is not negative
RECURSIVE IntToStr(_)
IntToStr(n) ==
    IF n < Len(Digits) THEN Digits[n + 1]
    ELSE IntToStr(n \div Len(Digits)) \o Digits[(n % Len(Digits)) + 1]

\* the text of a value in an f-string
Format(v) ==
    IF v.kind = "int" THEN IntToStr(v.int)
    ELSE IF v.kind = "str" THEN v.str
    ELSE "None"

\* sep.join(strings)
RECURSIVE Join(_, _)
Join(sep, strings) ==
    IF strings = <<>> THEN ""
    ELSE IF Len(strings) = 1 THEN strings[1]
    ELSE strings[1] \o sep \o Join(sep, Tail(strings))

\* lines 410-412
options_list(items) ==
    [i \in DOMAIN items |-> items[i].key \o "_" \o Format(items[i].value)]

\* lines 407-416: the id the root validator stores, whatever id was passed
_set_id(datasource_name, data_asset_name, items) ==
    Join("-", <<datasource_name, data_asset_name>> \o options_list(items))

OptionItems ==
    {items \in SeqsUpTo([key : OptionNames, value : OptionValues], MaxOptions) :
        \A i, j \in DOMAIN items : i # j => items[i].key # items[j].key}

PassedIds == {"a-a", "my_id"}

BatchInit ==
    /\ batches = {}
    /\ batch_manager = {}
    /\ batch_call = [op |-> "none"]

\* Batch(datasource=..., data_asset=..., batch_request=..., id=id, ...)
NewBatch(datasource_name, data_asset_name, items, id) ==
    LET batch == [datasource |-> datasource_name,
                  data_asset |-> data_asset_name,
                  batch_request |-> BatchRequest(datasource_name, data_asset_name, items),
                  id |-> _set_id(datasource_name, data_asset_name, items)]
    IN  /\ batches' = batches \cup {batch}
        /\ batch_call' = [op |-> "Batch", id |-> id, batch |-> batch]
        /\ UNCHANGED batch_manager

ConstructBatch ==
    /\ Cardinality(batches) < MaxBatchObjects
    /\ \E d \in BatchNames, a \in BatchNames, items \in OptionItems, id \in PassedIds :
           NewBatch(d, a, items, id)
    /\ UNCHANGED notBatchVars

\* the two batches are of the same datasource name, asset name and options
SameSource(b1, b2) ==
    /\ b1.datasource = b2.datasource
    /\ b1.data_asset = b2.data_asset
    /\ {b1.batch_request.options[i] : i \in DOMAIN b1.batch_request.options}
           = {b2.batch_request.options[i] : i \in DOMAIN b2.batch_request.options}

\* the id is the datasource name, the asset name and each option as key_value,
\* joined with "-", whatever id the caller passed
IdIsComputed ==
    \A b \in batches :
        b.id = Join("-", <<b.datasource, b.data_asset>>
                         \o [i \in DOMAIN b.batch_request.options |->
                                b.batch_request.options[i].key \o "_"
                                    \o Format(b.batch_request.options[i].value)])

\* C10 as claimed: the id of a Batch is computed from the datasource name, the asset
\* name and the options, a passed id is overwritten, and two batches that differ in
\* datasource name, asset name or options never have the same id.
C10_BatchIdUnique ==
    /\ IdIsComputed
    /\ \A b1, b2 \in batches : ~SameSource(b1, b2) => b1.id # b2.id

(***************************************************************************)
(* interfaces.py: Batch.head.                                              *)
(*                                                                         *)
(* The execution engine of the batch's data is outside this source: it is  *)
(* the batch manager's set of loaded batches and a resolve_metrics that    *)
(* returns one value for each metric configuration.  Either call of the    *)
(* engine may raise, and head does not catch what it raises.               *)
(***************************************************************************)
\* n_rows is None or an int of -MaxRows..MaxRows
MaxRows == 2

NRowsArgs == {None} \cup {IntValue(n) : n \in (0 - MaxRows)..MaxRows}

\* the call of the engine that raises, if one does
EngineFailures == {"none", "load_batch_list", "resolve_metrics"}

\* the batches head is called on: the last two have the same id
HeadBatches ==
    { [datasource |-> d, data_asset |-> a,
       batch_request |-> BatchRequest(d, a, <<>>), id |-> _set_id(d, a, <<>>)] :
          d \in BatchNames, a \in BatchNames } \ 
    { [datasource |-> "a-a", data_asset |-> "a-a",
       batch_request |-> BatchRequest("a-a", "a-a", <<>>),
       id |-> _set_id("a-a", "a-a", <<>>)] }

\* MetricConfiguration(metric_name=..., metric_domain_kwargs=..., metric_value_kwargs=...)
MetricConfiguration(metric_name, metric_domain_kwargs, metric_value_kwargs) ==
    [metric_name |-> metric_name,
     metric_domain_kwargs |-> metric_domain_kwargs,
     metric_value_kwargs |-> metric_value_kwargs]

\* resolved_metrics[metric.id]
MetricValue(metric) == [kind |-> "MetricValue", metric |-> metric]

\* the calls head makes on the execution engine
LoadBatchList(list) == [op |-> "load_batch_list", batch_list |-> list]
ResolveMetrics(metrics_to_resolve) ==
    [op |-> "resolve_metrics", metrics_to_resolve |-> metrics_to_resolve]

\* line 419 with the test n_rows >= 0 on every n_rows that is not None
PositiveOrZero(n_rows) == n_rows # None /\ n_rows.int >= 0

\* line 419: n_rows and n_rows > 0
Positive(n_rows) == (n_rows # None /\ n_rows.int # 0) /\ n_rows.int > 0

\* lines 418-433: the outcome, the calls made on the engine and the batches they
\* loaded
head(batch, n_rows, fails) ==
    IF Positive(n_rows)
    THEN LET metric == MetricConfiguration("table.head",
                           [batch_id |-> batch.id],
                           [n_rows |-> n_rows, fetch_all |-> FALSE])
         IN  IF fails = "load_batch_list"
             THEN [outcome |-> Raised("EngineError"),
                   engine_calls |-> <<LoadBatchList(<<batch>>)>>,
                   loaded |-> {}]
             ELSE IF fails = "resolve_metrics"
             THEN [outcome |-> Raised("EngineError"),
                   engine_calls |-> <<LoadBatchList(<<batch>>),
                                      ResolveMetrics(<<metric>>)>>,
                   loaded |-> {batch}]
             ELSE [outcome |-> Returned(MetricValue(metric)),
                   engine_calls |-> <<LoadBatchList(<<batch>>),
                                      ResolveMetrics(<<metric>>)>>,
                   loaded |-> {batch}]
    ELSE [outcome |-> Raised("BatchError"), engine_calls |-> <<>>, loaded |-> {}]

\* the batches of HeadBatches that were constructed
HeadInit ==
    /\ batches \in SUBSET HeadBatches \ {{}}
    /\ batch_manager = {}
    /\ batch_call = [op |-> "none"]

BatchHead(batch, n_rows, fails) ==
    LET r == head(batch, n_rows, fails)
    IN  /\ batch_manager' = batch_manager \cup r.loaded
        /\ batch_call' = [op |-> "head", batch |-> batch, n_rows |-> n_rows,
                          fails |-> fails, outcome |-> r.outcome,
                          engine_calls |-> r.engine_calls]
        /\ UNCHANGED batches

DoHead ==
    /\ \E batch \in batches, n_rows \in NRowsArgs, fails \in EngineFailures :
           BatchHead(batch, n_rows, fails)
    /\ UNCHANGED notBatchVars

\* C11: Batch.head(n_rows) raises BatchError, with no call made on the execution
\* engine and no batch loaded, exactly when n_rows is zero, negative or None; for
\* every positive n_rows it first loads this batch in the batch manager, then
\* resolves the "table.head" metric of this batch's id with n_rows as given and
\* fetch_all false, and returns the resolved value (when the engine raises in one
\* of the two calls, nothing is returned and the exception is not a BatchError).
C11_HeadPositiveRows ==
    [][batch_call'.op = "head" =>
          LET c == batch_call'
              rejected == c.n_rows = None \/ c.n_rows.int <= 0
              metric == [metric_name |-> "table.head",
                         metric_domain_kwargs |-> [batch_id |-> c.batch.id],
                         metric_value_kwargs |-> [n_rows |-> c.n_rows,
                                                  fetch_all |-> FALSE]]
          IN  /\ c.outcome.raised = "BatchError" <=> rejected
              /\ rejected =>
                     /\ c.engine_calls = <<>>
                     /\ batch_manager' = batch_manager
              /\ ~rejected =>
                     /\ c.engine_calls # <<>>
                     /\ c.engine_calls[1] =
                            [op |-> "load_batch_list", batch_list |-> <<c.batch>>]
                     /\ c.fails # "load_batch_list" =>
                            /\ batch_manager' = batch_manager \cup {c.batch}
                            /\ Len(c.engine_calls) = 2
                            /\ c.engine_calls[2] =
                                   [op |-> "resolve_metrics",
                                    metrics_to_resolve |-> <<metric>>]
                     /\ c.fails = "none" =>
                            /\ c.outcome.raised = "none"
                            /\ c.outcome.returned =
                                   [kind |-> "MetricValue", metric |-> metric]
      ]_vars

\* head returned the metric of MaxRows rows for a batch that is loaded, while
\* another batch of the same id is not loaded
C11_Witness ==
    /\ batch_call.op = "head"
    /\ batch_call.outcome.raised = "none"
    /\ batch_call.n_rows = IntValue(MaxRows)
    /\ batch_call.batch \in batch_manager
    /\ \E other \in batches \ batch_manager : other.id = batch_call.batch.id

(***************************************************************************)
(* tasks.py: the invoke tasks tests, docker and docs.                      *)
(*                                                                         *)
(* A path is the sequence of its segments.  One invoke process runs tasks  *)
(* one after the other and ends with the first task that raises.  What is  *)
(* outside the task file is the environment: whether a module can be       *)
(* imported, whether a command that ctx.run starts fails, which files the  *)
(* documentation build has written.                                        *)
(***************************************************************************)
\* the directory that holds tasks.py, a directory below it and one outside it
RepoDir == <<"repo">>
\* line 384: a path relative to the working directory
sphinx_api_docs_source_dir == <<"docs", "sphinx_api_docs_source">>
StartDirs == {RepoDir, <<"repo", "docs">>, <<"home">>}

\* __file__
TaskFile == <<"repo", "tasks.py">>

\* os.path.dirname and os.path.realpath: no segment of these paths is a link
Dirname(path) == SubSeq(path, 1, Len(path) - 1)
Realpath(path) == path

\* the text of a path
PathText(path) == "/" \o Join("/", path)

\* a float with one digit after the point, and its text in an f-string
Float(whole, tenths) == [kind |-> "float", whole |-> whole, tenths |-> tenths]
FormatFloat(f) == IntToStr(f.whole) \o "." \o IntToStr(f.tenths)

\* the outcomes of a task: it returned, it raised invoke.Exit(code=...), or a
\* command it ran failed and ctx.run raised UnexpectedExit
Exit(code) == [raised |-> "Exit", code |-> code]

TasksIdle ==
    /\ cwd = RepoDir
    /\ commands = <<>>
    /\ fs_ops = <<>>
    /\ task_call = [op |-> "none"]

TasksInit ==
    /\ cwd \in StartDirs
    /\ commands = <<>>
    /\ fs_ops = <<>>
    /\ task_call = [op |-> "none"]

\* the process runs the next task when the one before returned
ProcessRuns ==
    IF task_call.op = "none" THEN TRUE ELSE task_call.outcome.raised = "none"

\* ctx.run(" ".join(cmds)): the outcome when the command fails or not
CtxRun(run_fails) == IF run_fails THEN Raised("UnexpectedExit") ELSE Returned(None)

(***************************************************************************)
(* tests                                                                   *)
(***************************************************************************)
\* the package argument: None or a dotted name, held as its parts
Package(parts) == [kind |-> "str", parts |-> parts]
PackageArgs == {None, Package(<<"datasource", "fluent">>)}
SlowestArgs == {5}
\* the flags ci, html and cloud: the defaults, a CI run, and all of them set
ReportFlags ==
    { [ci |-> FALSE, html |-> FALSE, cloud |-> TRUE],
      [ci |-> TRUE, html |-> FALSE, cloud |-> FALSE],
      [ci |-> TRUE, html |-> TRUE, cloud |-> TRUE] }
TimeoutArgs == {Float(2, 0), Float(0, 5)}

\* package.replace('.', '/')
PackagePath(package) == Join("/", package.parts)

\* lines 252-256 with the unit flag left as passed when integration is set
UnitFlagAsPassed(unit, integration) == unit

\* lines 253-255: the unit flag after the integration flag has been read
UnitFlag(unit, integration) == IF integration THEN FALSE ELSE unit

\* lines 252-256
Markers(unit, integration) ==
    (IF integration THEN <<"integration">> ELSE <<>>)
        \o <<IF UnitFlag(unit, integration) THEN "unit" ELSE "not unit">>

\* lines 252-288: cmds
TestsCmds(unit, integration, ignore_markers, ci, html, cloud, slowest, timeout, package, full_cov, has_pytest_timeout) ==
    LET marker_text == Join(" and ", Markers(unit, integration))
        cov_param == "--cov=great_expectations"
                         \o (IF package # None /\ ~full_cov
                             THEN "/" \o PackagePath(package) ELSE "")
    IN  <<"pytest", "--durations=" \o IntToStr(slowest), cov_param,
          "--cov-report term", "-vv">>
        \o (IF ~ignore_markers THEN <<"-m", "'" \o marker_text \o "'">> ELSE <<>>)
        \o (IF UnitFlag(unit, integration) /\ ~ignore_markers /\ has_pytest_timeout
            THEN <<"--timeout=" \o FormatFloat(timeout)>> ELSE <<>>)
        \o (IF cloud THEN <<"--cloud">> ELSE <<>>)
        \o (IF ci THEN <<"--cov-report", "xml">> ELSE <<>>)
        \o (IF html THEN <<"--cov-report", "html">> ELSE <<>>)
        \o (IF package # None THEN <<"tests/" \o PackagePath(package)>> ELSE <<>>)

\* lines 234-289
Tests ==
    /\ ProcessRuns
    /\ \E unit, integration, ignore_markers, full_cov \in BOOLEAN :
       \E flags \in ReportFlags :
       \E slowest \in SlowestArgs, timeout \in TimeoutArgs, package \in PackageArgs :
       \E has_pytest_timeout, run_fails \in BOOLEAN :
           LET cmds == TestsCmds(unit, integration, ignore_markers, flags.ci,
                                 flags.html, flags.cloud, slowest, timeout, package,
                                 full_cov, has_pytest_timeout)
           IN  /\ commands' = <<Join(" ", cmds)>>
               /\ task_call' = [op |-> "tests", unit |-> unit,
                                integration |-> integration,
                                ignore_markers |-> ignore_markers,
                                has_pytest_timeout |-> has_pytest_timeout,
                                cmds |-> cmds, outcome |-> CtxRun(run_fails)]
    /\ fs_ops' = <<>>
    /\ UNCHANGED cwd
    /\ UNCHANGED notTasksVars

\* the marker expression passed to pytest: the argument after -m, or none
MarkerExpressions(cmds) ==
    {cmds[i + 1] : i \in {j \in 1..(Len(cmds) - 1) : cmds[j] = "-m"}}

TimeoutOptions == {"--timeout=" \o FormatFloat(t) : t \in TimeoutArgs}

\* C12: the tests task passes the marker expression 'unit' by default (unit true,
\* integration false), 'integration and not unit' when integration is set,
\* whatever the unit flag, and 'not unit' when unit and integration are false;
\* with ignore-markers set it passes no -m option and no --timeout option.
C12_TestsMarkers ==
    task_call.op = "tests" =>
        LET c == task_call
            expected == IF c.integration THEN "'integration and not unit'"
                        ELSE IF c.unit THEN "'unit'" ELSE "'not unit'"
        IN  /\ c.cmds[1] = "pytest"
            /\ commands = <<Join(" ", c.cmds)>>
            /\ ~c.ignore_markers => MarkerExpressions(c.cmds) = {expected}
            /\ c.ignore_markers =>
                   /\ "-m" \notin Range(c.cmds)
                   /\ MarkerExpressions(c.cmds) = {}
                   /\ Range(c.cmds) \cap TimeoutOptions = {}

\* the task ran with integration and unit both set and pytest-timeout installed:
\* the expression excludes unit tests and no timeout is passed
C12_Witness ==
    /\ task_call.op = "tests"
    /\ task_call.integration /\ task_call.unit
    /\ ~task_call.ignore_markers
    /\ task_call.has_pytest_timeout
    /\ "'integration and not unit'" \in Range(task_call.cmds)
    /\ Range(task_call.cmds) \cap TimeoutOptions = {}

(***************************************************************************)
(* docker                                                                  *)
(***************************************************************************)
\* lines 317 and 376: filedir
FileDir == Realpath(Dirname(Realpath(TaskFile)))

\* a test that lets every directory below filedir pass
OutsideFileDir(filedir, curdir) ==
    ~(Len(curdir) >= Len(filedir) /\ SubSeq(curdir, 1, Len(filedir)) = filedir)

\* lines 319 and 378: filedir != curdir
NotFileDir(filedir, curdir) == filedir # curdir

ImageNames == {"gx38local"}
ImageTags == {"latest"}
ImageCmds == {"bash", "pytest"}
PythonVersions == {Float(3, 8)}

\* lines 325-358: cmds
DockerCmds(name, tag, build, detach, cmd, py, filedir) ==
    <<"docker">>
    \o (IF build
        THEN <<"buildx", "build", "-f", "docker/Dockerfile.tests",
               "--tag " \o name \o ":" \o tag,
               "--build-arg SOURCE=local",
               "--build-arg PYTHON_VERSION=" \o FormatFloat(py),
               ".">>
        ELSE <<"run">>
             \o (IF detach THEN <<"--detach">> ELSE <<>>)
             \o <<"-it", "--rm", "--mount",
                  "type=bind,source=" \o PathText(filedir)
                      \o ",target=/great_expectations",
                  "-w", "/great_expectations", name \o ":" \o tag, cmd>>)

\* lines 305-360
Docker ==
    /\ ProcessRuns
    /\ \E name \in ImageNames, tag \in ImageTags, cmd \in ImageCmds :
       \E py \in PythonVersions, build, detach, run_fails \in BOOLEAN :
           LET filedir == FileDir
               curdir == Realpath(cwd)
               cmds == DockerCmds(name, tag, build, detach, cmd, py, filedir)
           IN  IF NotFileDir(filedir, curdir)
               THEN /\ commands' = <<>>
                    /\ task_call' = [op |-> "docker", build |-> build,
                                     cwd_at_invocation |-> cwd,
                                     outcome |-> Exit(1)]
               ELSE /\ commands' = <<Join(" ", cmds)>>
                    /\ task_call' = [op |-> "docker", build |-> build,
                                     cwd_at_invocation |-> cwd,
                                     outcome |-> CtxRun(run_fails)]
    /\ fs_ops' = <<>>
    /\ UNCHANGED cwd
    /\ UNCHANGED notTasksVars

(***************************************************************************)
(* docs                                                                    *)
(***************************************************************************)
\* an html file below the html directory of the build: its directory there, and
\* its name as stem and suffix
HtmlFile(dir, stem) == [dir |-> dir, stem |-> stem, suffix |-> ".html"]

\* what glob('**/*.html') finds after the build: nothing, or these files
BuiltHtml ==
    <<HtmlFile(<<>>, "index"), HtmlFile(<<>>, "genindex"), HtmlFile(<<>>, "search"),
      HtmlFile(<<"_static">>, "theme"), HtmlFile(<<"api">>, "my_static_page"),
      HtmlFile(<<"api">>, "batch"), HtmlFile(<<>>, "datasource")>>
HtmlFound == {<<>>, BuiltHtml}

\* the path segments whose text contains "_static"
ContainsStatic == {"_static", "my_static_page.html"}

FileName(f) == f.stem \o f.suffix

\* line 420: the filter on the name and on the text of the path
IsApiPage(html_dir, f) ==
    /\ FileName(f) \notin {"genindex.html", "search.html", "index.html"}
    /\ (Range(html_dir \o f.dir) \cup {FileName(f)}) \cap ContainsStatic = {}

\* the step of the task at which the environment makes it fail
DocsFailures ==
    {"none", "import sphinx", "make clean", "sphinx-build", "html", "copy"}

Rmtree(path) == [op |-> "rmtree", path |-> path]
Mkdir(path) == [op |-> "mkdir", path |-> path]
WriteFile(path, content) == [op |-> "write", path |-> path, content |-> content]
Copy(src, dst) == [op |-> "copy", src |-> src, dst |-> dst]

\* lines 425-452: the mdx file written for one html file
RECURSIVE WriteMdx(_, _, _)
WriteMdx(files, html_dir, api_path) ==
    IF files = <<>> THEN <<>>
    ELSE LET f == Head(files)
             output_path == api_path \o f.dir \o <<f.stem \o ".mdx">>
             rest == WriteMdx(Tail(files), html_dir, api_path)
         IN  IF IsApiPage(html_dir, f)
             THEN <<Mkdir(Dirname(output_path)),
                    WriteFile(output_path, [section_of |-> html_dir \o f.dir
                                                \o <<FileName(f)>>])>> \o rest
             ELSE rest

\* lines 461-479: the stylesheets and file.png copied to src/css
CopyStatic(html_dir, filedir) ==
    LET base == html_dir \o <<"_static">>
        css == filedir \o <<"src", "css">>
    IN  <<Copy(base \o <<"basic.css">>, css \o <<"basic.scss">>),
          Copy(base \o <<"pygments.css">>, css \o <<"pygments.scss">>),
          Copy(base \o <<"styles", "pydata-sphinx-theme.css">>,
               css \o <<"pydata-sphinx-theme.scss">>),
          Copy(base \o <<"file.png">>, css \o <<"file.png">>)>>

\* lines 369-486: the outcome, the directory the process is left in, the
\* commands run and the changes made to files
docs(clean, remove_html, fails, api_is_dir, html_found) ==
    LET filedir == FileDir
        curdir == Realpath(cwd)
        sphinx_dir == cwd \o sphinx_api_docs_source_dir
        api_path == curdir \o <<"docs", "reference", "api">>
        temp_docs_build_dir == curdir \o <<"temp_docs_build_dir">>
        html_dir == temp_docs_build_dir \o <<"sphinx_api_docs", "html">>
        make_clean == IF clean THEN <<"make clean">> ELSE <<>>
        build == <<"sphinx-build -M html ./ ../../temp_docs_build_dir/sphinx_api_docs">>
        clean_api == (IF api_is_dir THEN <<Rmtree(api_path)>> ELSE <<>>)
                         \o <<Mkdir(api_path)>>
        mdx == WriteMdx(html_found, html_dir, api_path)
        static == CopyStatic(html_dir, filedir)
    IN  IF NotFileDir(filedir, curdir)
        THEN [outcome |-> Exit(1), changed_dir |-> FALSE, cwd |-> cwd,
              commands |-> <<>>, fs_ops |-> <<>>]
        ELSE IF fails = "import sphinx"
        THEN [outcome |-> Exit(1), changed_dir |-> TRUE, cwd |-> sphinx_dir,
              commands |-> <<>>, fs_ops |-> <<>>]
        ELSE IF fails = "make clean" /\ clean
        THEN [outcome |-> Raised("UnexpectedExit"), changed_dir |-> TRUE,
              cwd |-> sphinx_dir, commands |-> make_clean, fs_ops |-> <<>>]
        ELSE IF fails = "sphinx-build"
        THEN [outcome |-> Raised("UnexpectedExit"), changed_dir |-> TRUE,
              cwd |-> sphinx_dir, commands |-> make_clean \o build,
              fs_ops |-> <<>>]
        ELSE IF fails = "html" /\ mdx # <<>>
        THEN [outcome |-> Raised("AttributeError"), changed_dir |-> TRUE,
              cwd |-> sphinx_dir, commands |-> make_clean \o build,
              fs_ops |-> clean_api]
        ELSE IF fails = "copy"
        THEN [outcome |-> Raised("FileNotFoundError"), changed_dir |-> TRUE,
              cwd |-> sphinx_dir, commands |-> make_clean \o build,
              fs_ops |-> clean_api \o mdx]
        ELSE [outcome |-> Returned(None), changed_dir |-> TRUE, cwd |-> curdir,
              commands |-> make_clean \o build,
              fs_ops |-> clean_api \o mdx \o static
                  \o (IF remove_html THEN <<Rmtree(temp_docs_build_dir)>>
                      ELSE <<>>)]

Docs ==
    /\ ProcessRuns
    /\ \E clean, remove_html, api_is_dir \in BOOLEAN :
       \E fails \in DocsFailures, html_found \in HtmlFound :
           LET r == docs(clean, remove_html, fails, api_is_dir, html_found)
           IN  /\ cwd' = r.cwd
               /\ commands' = r.commands
               /\ fs_ops' = r.fs_ops
               /\ task_call' = [op |-> "docs", clean |-> clean,
                                remove_html |-> remove_html,
                                cwd_at_invocation |-> cwd,
                                changed_dir |-> r.changed_dir,
                                outcome |-> r.outcome]
    /\ UNCHANGED notTasksVars

\* C13: when the working directory is not the directory that holds the task
\* file, the docker task and the docs task exit with code 1 with no command run,
\* no file or directory changed and the working directory as it was; from the
\* directory of the task file neither of them exits at that check.
C13_ExitOutsideTaskDir ==
    [][task_call'.op \in {"docker", "docs"} =>
          LET rejected == /\ task_call'.outcome = [raised |-> "Exit", code |-> 1]
                          /\ commands' = <<>>
                          /\ fs_ops' = <<>>
                          /\ cwd' = cwd
          IN  /\ cwd # <<"repo">> => rejected
              /\ cwd = <<"repo">> =>
                     /\ task_call'.op = "docker" => task_call'.outcome.raised # "Exit"
                     /\ task_call'.op = "docs" =>
                            (task_call'.outcome.raised = "Exit" => cwd' # cwd)
      ]_vars

\* the docs task was run from a directory below the one of the task file and
\* exited with code 1 where it was
C13_Witness ==
    /\ task_call.op = "docs"
    /\ task_call.cwd_at_invocation = <<"repo", "docs">>
    /\ task_call.outcome = [raised |-> "Exit", code |-> 1]
    /\ ~task_call.changed_dir
    /\ cwd = <<"repo", "docs">>
    /\ commands = <<>> /\ fs_ops = <<>>

\* C14 as claimed: whenever the docs task ends after having changed into the
\* sphinx source directory, also when it exits because sphinx is missing or a
\* build step fails, the working directory is the one at invocation.
C14_DocsRestoresCwd ==
    (task_call.op = "docs" /\ task_call.changed_dir) =>
        cwd = task_call.cwd_at_invocation

\* what holds of it: a docs task that returns leaves the process in the directory
\* it was invoked from, and one that raises after the change of directory leaves
\* it in the sphinx source directory
C14_DocsRestoresCwdOnReturn ==
    (task_call.op = "docs" /\ task_call.changed_dir) =>
        IF task_call.outcome.raised = "none"
        THEN cwd = task_call.cwd_at_invocation
        ELSE cwd = task_call.cwd_at_invocation \o <<"docs", "sphinx_api_docs_source">>

(***************************************************************************)
(* Specifications: each one runs one part of the program and leaves the    *)
(* others as constructed.                                                  *)
(***************************************************************************)
\* the metric, run once on each input
InitMetric ==
    /\ MetricInit /\ DatasourceInit /\ SortersIdle /\ SortIdle /\ order_by = <<>>
    /\ BatchInit /\ TasksIdle

NextMetric == Pandas

SpecMetric == InitMetric /\ [][NextMetric]_vars

\* datasources and their assets
Init ==
    /\ DatasourceInit /\ MetricIdle /\ SortersIdle /\ SortIdle /\ order_by = <<>>
    /\ BatchInit /\ TasksIdle

Next ==
    \/ DoAddAsset
    \/ DoGetAsset
    \/ DoGetBatchRequest
    \/ DoGetBatchList

Spec == Init /\ [][Next]_vars

\* the conversion of sorter strings, through the order_by field and add_sorters
InitSorters ==
    SortersInit /\ MetricIdle /\ DatasourceInit /\ SortIdle /\ BatchInit /\ TasksIdle

NextSorters ==
    \/ ConstructWithOrderBy
    \/ AddSorters

SpecSorters == InitSorters /\ [][NextSorters]_vars

\* sort_batches on each order_by and each batch list
InitSort ==
    SortInit /\ MetricIdle /\ DatasourceInit /\ SortersIdle /\ BatchInit /\ TasksIdle

NextSort == SortBatches

SpecSort == InitSort /\ [][NextSort]_vars

\* Batch objects
InitBatch ==
    /\ BatchInit /\ MetricIdle /\ DatasourceInit /\ SortersIdle /\ SortIdle
    /\ order_by = <<>> /\ TasksIdle

NextBatch == ConstructBatch

SpecBatch == InitBatch /\ [][NextBatch]_vars

\* Batch.head on the batches constructed
InitHead ==
    /\ HeadInit /\ MetricIdle /\ DatasourceInit /\ SortersIdle /\ SortIdle
    /\ order_by = <<>> /\ TasksIdle

NextHead == DoHead

SpecHead == InitHead /\ [][NextHead]_vars

\* the tasks of one invoke process
InitTasks ==
    /\ TasksInit /\ MetricIdle /\ DatasourceInit /\ SortersIdle /\ SortIdle
    /\ order_by = <<>> /\ BatchInit

NextTasks ==
    \/ Tests
    \/ Docker
    \/ Docs

SpecTasks == InitTasks /\ [][NextTasks]_vars

====
